---- MODULE Spec2Model ----
(***************************************************************************)
(* Model of file_organizer_agent.py: the boundary check                    *)
(* is_path_within_boundary, the target-directory selection, the initial    *)
(* listing and the propose / review / revise / execute loop of main().     *)
(***************************************************************************)
EXTENDS Integers, Sequences, FiniteSets, TLC

(***************************************************************************)
(* Bounds of the model.                                                    *)
(***************************************************************************)
\* longest raw candidate path (number of segments) given to the boundary check
MaxPathLen == 3
\* longest raw boundary path (number of segments) given to the boundary check
MaxBoundaryLen == 2
\* longest path (number of segments) typed at the directory prompt
MaxUserPathLen == 2
\* most lines of a proposal text given to the extraction on its own
MaxLines == 3
\* longest recorded history of a session (agent calls, displays, inputs, pauses)
MaxEvents == 8

(***************************************************************************)
(* Paths.  A raw path is what a caller types: absolute or relative, and a  *)
(* sequence of segments that may hold "." , ".." and "~".  Segment names   *)
(* are spelled out in characters so that a comparison of path strings and  *)
(* a comparison of path components are different things.                   *)
(***************************************************************************)
Names == {"a", "ab"}
Segs == Names \cup {".", "..", "~"}

Chars(seg) ==
    CASE seg = "a" -> <<"a">>
      [] seg = "ab" -> <<"a", "b">>
      [] seg = "." -> <<".">>
      [] seg = ".." -> <<".", ".">>
      [] seg = "~" -> <<"~">>

RECURSIVE SeqsUpTo(_, _)
SeqsUpTo(S, n) ==
    IF n = 0 THEN {<<>>}
    ELSE LET shorter == SeqsUpTo(S, n - 1)
         IN  shorter \cup {Append(s, x) : s \in shorter, x \in S}

RawPaths(n) == [abs : BOOLEAN, comps : SeqsUpTo(Segs, n)]

\* the process's working directory and the user's home directory
Cwd == <<"ab">>
Home == <<"a">>

\* os.path.expanduser: a leading "~" segment of a relative path becomes the home directory
expanduser(p) ==
    IF ~p.abs /\ p.comps # <<>> /\ p.comps[1] = "~"
    THEN [abs |-> TRUE, comps |-> Home \o Tail(p.comps)]
    ELSE p

\* the loop of posixpath.normpath over the segments: "." is skipped, ".."
\* pops a name, is dropped at the root, and is kept at the start of a relative path
RECURSIVE NormLoop(_, _, _)
NormLoop(comps, new_comps, initial_slashes) ==
    IF comps = <<>> THEN new_comps
    ELSE LET comp == Head(comps)
             n == Len(new_comps)
         IN  IF comp = "."
             THEN NormLoop(Tail(comps), new_comps, initial_slashes)
             ELSE IF comp # ".."
                     \/ (~initial_slashes /\ n = 0)
                     \/ (n > 0 /\ new_comps[n] = "..")
             THEN NormLoop(Tail(comps), Append(new_comps, comp), initial_slashes)
             ELSE IF n > 0
             THEN NormLoop(Tail(comps), SubSeq(new_comps, 1, n - 1), initial_slashes)
             ELSE NormLoop(Tail(comps), new_comps, initial_slashes)

normpath(p) == [abs |-> p.abs, comps |-> NormLoop(p.comps, <<>>, p.abs)]

\* os.path.abspath: a relative path is joined to the working directory, then normalised
abspath(p) ==
    IF p.abs THEN normpath(p)
    ELSE normpath([abs |-> TRUE, comps |-> Cwd \o p.comps])

RECURSIVE CommonPrefix(_, _)
CommonPrefix(s, t) ==
    IF s = <<>> \/ t = <<>> \/ Head(s) # Head(t) THEN <<>>
    ELSE <<Head(s)>> \o CommonPrefix(Tail(s), Tail(t))

\* the path as a string of characters, "/" before every segment
RECURSIVE Flatten(_)
Flatten(comps) ==
    IF comps = <<>> THEN <<>>
    ELSE <<"/">> \o Chars(Head(comps)) \o Flatten(Tail(comps))

PathStr(p) == IF p.comps = <<>> THEN <<"/">> ELSE Flatten(p.comps)

StartsWith(s, t) == Len(t) <= Len(s) /\ SubSeq(s, 1, Len(t)) = t

\* a broken comparison: the candidate's string starts with the boundary's string
commonpath_prefix_bug(p1, p2) ==
    IF StartsWith(PathStr(p2), PathStr(p1)) THEN p1
    ELSE [abs |-> TRUE, comps |-> <<>>]

\* os.path.commonpath of two absolute paths: the longest common run of
\* leading components ("." and empty components dropped, ".." not resolved)
commonpath(p1, p2) ==
    LET c1 == SelectSeq(p1.comps, LAMBDA c : c # ".")
        c2 == SelectSeq(p2.comps, LAMBDA c : c # ".")
    IN  [abs |-> TRUE, comps |-> CommonPrefix(c1, c2)]

\* a broken check: the arguments are taken the other way round
is_path_within_boundary_swapped(path_to_check, boundary_path) ==
    LET abs_boundary == abspath(boundary_path)
        abs_check == abspath(path_to_check)
    IN  commonpath(abs_boundary, abs_check) = abs_check

\* is_path_within_boundary(path_to_check, boundary_path); both paths are made
\* absolute first, so commonpath never sees a mix of absolute and relative
\* paths and the two except branches return False without being reached
is_path_within_boundary(path_to_check, boundary_path) ==
    LET abs_boundary == abspath(boundary_path)
        abs_check == abspath(path_to_check)
    IN  commonpath(abs_boundary, abs_check) = abs_boundary

(***************************************************************************)
(* Text.  A text is a sequence of tokens; "\n" ends a line and " " is      *)
(* white space.  Upper-case spellings are tokens of their own, so that     *)
(* lower-casing is a conversion and not the identity.                      *)
(***************************************************************************)
NL == "\n"
plan_marker == "PLAN:"
tool_call_prefix == "call tool"

Lower(tok) ==
    CASE tok = "Call Tool" -> "call tool"
      [] tok = "PLAN:" -> "plan:"
      [] tok = "RESOURCE_EXHAUSTED" -> "resource_exhausted"
      [] tok = "Error" -> "error"
      [] tok = "Y" -> "y"
      [] tok = "E" -> "e"
      [] tok = "S" -> "s"
      [] tok = "N" -> "n"
      [] tok = "O" -> "o"
      [] OTHER -> tok

LowerText(text) == [i \in 1..Len(text) |-> Lower(text[i])]

Contains(text, tok) == \E i \in 1..Len(text) : text[i] = tok

IsSpace(tok) == tok = " " \/ tok = NL

\* str.strip(): leading and trailing white space removed
RECURSIVE LStrip(_)
LStrip(text) ==
    IF text # <<>> /\ IsSpace(Head(text)) THEN LStrip(Tail(text)) ELSE text

RECURSIVE RStrip(_)
RStrip(text) ==
    IF text # <<>> /\ IsSpace(text[Len(text)])
    THEN RStrip(SubSeq(text, 1, Len(text) - 1))
    ELSE text

Strip(text) == RStrip(LStrip(text))

\* str.split('\n'): the lines of a text (one more than the number of "\n")
RECURSIVE SplitLines(_, _)
SplitLines(text, line) ==
    IF text = <<>> THEN <<line>>
    ELSE IF Head(text) = NL THEN <<line>> \o SplitLines(Tail(text), <<>>)
    ELSE SplitLines(Tail(text), Append(line, Head(text)))

Split(text) == SplitLines(text, <<>>)

\* "\n".join(lines)
RECURSIVE Join(_)
Join(lines) ==
    IF lines = <<>> THEN <<>>
    ELSE IF Len(lines) = 1 THEN lines[1]
    ELSE lines[1] \o <<NL>> \o Join(Tail(lines))

\* a broken split: what follows the last occurrence of the marker
RECURSIVE AfterMarker_last(_)
AfterMarker_last(text) ==
    IF text[Len(text)] = plan_marker THEN <<>>
    ELSE Append(AfterMarker_last(SubSeq(text, 1, Len(text) - 1)), text[Len(text)])

\* text.split(plan_marker, 1)[1]: what follows the first occurrence of the marker
RECURSIVE AfterMarker(_)
AfterMarker(text) ==
    IF Head(text) = plan_marker THEN Tail(text) ELSE AfterMarker(Tail(text))

\* a broken test: the prefix is compared without lower-casing the line
IsToolCallLine_case_sensitive(line) ==
    LET l == Strip(line)
    IN  l # <<>> /\ l[1] = tool_call_prefix

\* line.strip().lower().startswith(tool_call_prefix)
IsToolCallLine(line) ==
    LET l == LowerText(Strip(line))
    IN  l # <<>> /\ l[1] = tool_call_prefix

\* [line.strip() for line in text.split('\n') if line.strip().lower().startswith(prefix)]
RECURSIVE StripAll(_)
StripAll(lines) ==
    IF lines = <<>> THEN <<>> ELSE <<Strip(Head(lines))>> \o StripAll(Tail(lines))

ToolCallLines(text) == StripAll(SelectSeq(Split(text), IsToolCallLine))

\* a broken extraction: without the marker nothing is kept
plan_lines_marker_only(response) ==
    IF Contains(response, plan_marker)
    THEN ToolCallLines(Strip(AfterMarker(response)))
    ELSE <<>>

\* the plan extraction of the loop: the lines kept, then joined into current_plan
plan_lines(response) ==
    IF Contains(response, plan_marker)
    THEN ToolCallLines(Strip(AfterMarker(response)))
    ELSE IF Contains(LowerText(response), tool_call_prefix)
    THEN ToolCallLines(response)
    ELSE <<>>

ExtractPlan(response) == Join(plan_lines(response))

\* the grouping of the review display
IsCreate(line) == Contains(line, "create_directory")
IsMove(line) == ~IsCreate(line) /\ Contains(line, "move_file")
IsOther(line) == ~IsCreate(line) /\ ~Contains(line, "move_file")

creates(plan) == SelectSeq(Split(plan), IsCreate)
moves(plan) == SelectSeq(Split(plan), IsMove)
others(plan) == SelectSeq(Split(plan), IsOther)

(***************************************************************************)
(* The environment of a session: the directories that exist, what the      *)
(* configuration and the operator may supply, what the agent may answer.   *)
(***************************************************************************)
EmptyPath == [abs |-> FALSE, comps |-> <<>>]
Rel(comps) == [abs |-> FALSE, comps |-> comps]
Abs(comps) == [abs |-> TRUE, comps |-> comps]

\* the directories of the file system: /, /a (home), /ab (cwd) and /a/ab
Dirs == {<<>>, <<"a">>, <<"ab">>, <<"a", "ab">>}
isdir(p) == p.abs /\ p.comps \in Dirs

\* TOP_LEVEL_ALLOWED_PATH: the default "~", or "."
TopLevelConfigs == {Rel(<<"~">>), Rel(<<".">>)}
\* DEFAULT_TARGET_DIR: unset, a directory inside the home directory, the
\* working directory, a path that is no directory
DefaultTargetConfigs ==
    {EmptyPath, Rel(<<"~", "ab">>), Rel(<<".">>), Abs(<<"a", "a">>)}
\* what the operator may type at the directory prompt
UserPaths == RawPaths(MaxUserPathLen)

\* the optional organisation context, as typed
ContextInputs == {<<>>, <<" ", "photos", " ">>}

\* the initial listing as the agent reports it: a listing, nothing, white space
ListingTexts == {<<"a.jpg", NL, "b.txt">>, <<>>, <<" ", NL>>}

\* proposals of the agent: a plan after the marker with a move before a
\* create, an upper-case prefix, an unrecognised tool and escaping paths;
\* prose without any tool call; the empty text
ReplyPlan ==
    <<"note", NL, "PLAN:", NL,
      "call tool", "move_file", "a.jpg", "../x", NL,
      " ", "Call Tool", "create_directory", "/etc", " ", NL,
      "call tool", "delete_file", "b.txt", NL,
      "note">>
ReplyProse == <<"note", NL, "note">>
Replies == {ReplyPlan, ReplyProse, <<>>}
\* what the agent reports after an execution: all done, or stopped at a failed tool call
ExecutionResults == {<<"done">>, <<"error", "stopped">>}

\* messages of a ModelProviderError
ProviderErrors == {<<"Error", "429">>, <<"RESOURCE_EXHAUSTED">>, <<"Error", "500">>}

\* what the operator may type at the review prompt
RawInputs ==
    {<<"y", "e", "s">>, <<" ", "Y", "E", "S", " ">>, <<"n", "o">>, <<"N", "o", " ">>,
     <<"M", "o", "r", "e">>, <<>>}

yes == <<"y", "e", "s">>
no == <<"n", "o">>

\* a broken test: any provider message that says "Error" counts as a rate limit
IsRateLimit_any_error(msg) ==
    LET error_str == LowerText(msg)
    IN  Contains(error_str, "error") \/ Contains(error_str, "resource_exhausted")

\* "429" in error_str or "resource_exhausted" in error_str, error_str = str(e).lower()
IsRateLimit(msg) ==
    LET error_str == LowerText(msg)
    IN  Contains(error_str, "429") \/ Contains(error_str, "resource_exhausted")

\* the outcomes of one awaited agent call
CallOutcomes(texts) ==
    [kind : {"ok"}, text : texts]
        \cup [kind : {"ModelProviderError"}, text : ProviderErrors]
        \cup [kind : {"Exception"}, text : {<<>>}]

(***************************************************************************)
(* State.                                                                  *)
(***************************************************************************)
VARIABLES
    pc,                         \* the statement main() is at
    top_level_path_config,      \* TOP_LEVEL_ALLOWED_PATH
    default_target_dir_config,  \* DEFAULT_TARGET_DIR
    resolved_top_level,
    resolved_user_path,         \* the last path entered at the directory prompt, resolved
    target_determined,
    ALLOWED_BASE_PATH_STR,
    user_context_input,
    initial_structure,
    current_plan,
    last_response,
    user_input,
    execution_prompt,           \* the empty text while the local is unassigned
    agent_call_failed,
    exit,                       \* why main() ended
    events,                     \* what the session did: agent calls, displays, inputs, pauses
    path_to_check,              \* the arguments and the result of one boundary check
    boundary_path,
    within

vars ==
    <<pc, top_level_path_config, default_target_dir_config, resolved_top_level,
      resolved_user_path, target_determined, ALLOWED_BASE_PATH_STR,
      user_context_input, initial_structure, current_plan, last_response,
      user_input, execution_prompt, agent_call_failed, exit, events,
      path_to_check, boundary_path, within>>

pathVars == <<path_to_check, boundary_path, within>>
configVars == <<top_level_path_config, default_target_dir_config>>
selectVars == <<resolved_top_level, resolved_user_path, target_determined, ALLOWED_BASE_PATH_STR>>
loopVars == <<current_plan, last_response, user_input, execution_prompt, agent_call_failed>>

Init ==
    /\ pc = "start"
    /\ top_level_path_config \in TopLevelConfigs
    /\ default_target_dir_config \in DefaultTargetConfigs
    /\ resolved_top_level = EmptyPath
    /\ resolved_user_path = EmptyPath
    /\ target_determined = FALSE
    /\ ALLOWED_BASE_PATH_STR = EmptyPath
    /\ user_context_input = <<>>
    /\ initial_structure = <<>>
    /\ current_plan = <<>>
    /\ last_response = <<>>
    /\ user_input = <<>>
    /\ execution_prompt = <<>>
    /\ agent_call_failed = FALSE
    /\ exit = "running"
    /\ events = <<>>
    /\ path_to_check = EmptyPath
    /\ boundary_path = EmptyPath
    /\ within = "unchecked"

Log(e) == events' = Append(events, e)
Room == Len(events) < MaxEvents

(***************************************************************************)
(* Target directory.                                                       *)
(***************************************************************************)
\* lines 54-67: the configured default is taken when it is a directory inside the top level
DetermineTarget ==
    /\ pc = "start"
    /\ LET top == abspath(expanduser(top_level_path_config))
           resolved_default == abspath(expanduser(default_target_dir_config))
           accepted == /\ default_target_dir_config # EmptyPath
                       /\ isdir(resolved_default)
                       /\ is_path_within_boundary(resolved_default, top)
       IN  /\ resolved_top_level' = top
           /\ target_determined' = accepted
           /\ ALLOWED_BASE_PATH_STR' = IF accepted THEN resolved_default ELSE EmptyPath
           /\ pc' = IF accepted THEN "context" ELSE "prompt_dir"
    /\ UNCHANGED <<resolved_user_path, user_context_input, initial_structure, exit, events>>
    /\ UNCHANGED <<configVars, loopVars, pathVars>>

\* lines 71-82: one round of the directory prompt
PromptDirectory ==
    /\ pc = "prompt_dir"
    /\ \E user_path \in UserPaths :
         LET resolved == abspath(expanduser(user_path))
             accepted == /\ isdir(resolved)
                         /\ is_path_within_boundary(resolved, resolved_top_level)
         IN  /\ resolved_user_path' = resolved
             /\ target_determined' = accepted
             /\ ALLOWED_BASE_PATH_STR' = IF accepted THEN resolved ELSE ALLOWED_BASE_PATH_STR
             /\ pc' = IF accepted THEN "context" ELSE "prompt_dir"
    /\ UNCHANGED <<resolved_top_level, user_context_input, initial_structure, exit, events>>
    /\ UNCHANGED <<configVars, loopVars, pathVars>>

\* lines 84-90: the guard on an unset base path, then the optional context
ReadContext ==
    /\ pc = "context"
    /\ IF ALLOWED_BASE_PATH_STR = EmptyPath
       THEN /\ pc' = "finished"
            /\ exit' = "no_target"
            /\ UNCHANGED user_context_input
       ELSE /\ \E typed \in ContextInputs : user_context_input' = Strip(typed)
            /\ pc' = "setup"
            /\ UNCHANGED exit
    /\ UNCHANGED <<initial_structure, events>>
    /\ UNCHANGED <<configVars, selectVars, loopVars, pathVars>>

\* lines 93-118: the model object and the MCP file-system server; either may fail
Setup ==
    /\ pc = "setup"
    /\ \E ok \in BOOLEAN :
         IF ok THEN pc' = "listing" /\ UNCHANGED exit
         ELSE pc' = "finished" /\ exit' = "setup_failed"
    /\ UNCHANGED <<user_context_input, initial_structure, events>>
    /\ UNCHANGED <<configVars, selectVars, loopVars, pathVars>>

(***************************************************************************)
(* Prompts and the record of a session.                                    *)
(***************************************************************************)
initial_structure_prompt == <<"CRITICAL: Use the tool 'list_directory' NOW.">>

\* lines 230-240: the base prompt, with the operator's context in front when there is one
BasePrompt ==
    LET base_prompt == <<"Based on the following file structure, propose a plan.",
                         NL, NL, "Initial Structure:", NL>> \o initial_structure
    IN  IF user_context_input # <<>>
        THEN <<"User Context for Organization:">> \o user_context_input
                 \o <<NL, NL>> \o base_prompt
        ELSE base_prompt

\* lines 319-323
RevisionPrompt(feedback) ==
    <<"The user wants to revise the organization plan. Their feedback is:">>
        \o feedback \o <<NL, "Generate a *new* organization plan.">>

\* lines 299-303
ExecutionHeader ==
    <<"Execute the following organization plan step-by-step. Call the tools exactly as listed.",
      NL, NL, "Plan:", NL>>
\* a broken prompt: only the create and move lines are sent, creates first
ExecutionPrompt_typed_only(plan) ==
    ExecutionHeader \o Join(creates(plan) \o moves(plan))

ExecutionPrompt(plan) == ExecutionHeader \o plan

\* warned: the warning of line 266, printed when the extraction that
\* follows a base-prompt reply keeps no line
CallEvent(kind, prompt, outcome) ==
    [type |-> "call", kind |-> kind, prompt |-> prompt,
     outcome |-> outcome.kind, reply |-> outcome.text,
     warned |-> (kind = "base" /\ outcome.kind = "ok"
                     /\ plan_lines(outcome.text) = <<>>)]

\* line 341
wait_time == 65

(***************************************************************************)
(* Initial listing.                                                        *)
(***************************************************************************)
\* a broken test of the listing: a listing of white space alone is not taken as empty
InitialListing_no_strip ==
    /\ pc = "listing"
    /\ Room
    /\ \E outcome \in CallOutcomes(ListingTexts) :
         /\ Log(CallEvent("list", initial_structure_prompt, outcome))
         /\ CASE outcome.kind = "ok" ->
                   /\ initial_structure' = outcome.text
                   /\ IF outcome.text = <<>>
                      THEN pc' = "finished" /\ exit' = "empty_listing"
                      ELSE pc' = "loop" /\ UNCHANGED exit
              [] outcome.kind = "ModelProviderError" ->
                   /\ pc' = "finished"
                   /\ exit' = "listing_error"
                   /\ UNCHANGED initial_structure
              [] outcome.kind = "Exception" ->
                   /\ pc' = "finished"
                   /\ exit' = "crash"
                   /\ UNCHANGED initial_structure
    /\ UNCHANGED user_context_input
    /\ UNCHANGED <<configVars, selectVars, loopVars, pathVars>>

\* lines 178-219: the listing call; a provider error of any kind and a blank
\* listing both return from main(), any other exception reaches the outer handler
InitialListing ==
    /\ pc = "listing"
    /\ Room
    /\ \E outcome \in CallOutcomes(ListingTexts) :
         /\ Log(CallEvent("list", initial_structure_prompt, outcome))
         /\ CASE outcome.kind = "ok" ->
                   /\ initial_structure' = outcome.text
                   /\ IF Strip(outcome.text) = <<>>
                      THEN pc' = "finished" /\ exit' = "empty_listing"
                      ELSE pc' = "loop" /\ UNCHANGED exit
              [] outcome.kind = "ModelProviderError" ->
                   /\ pc' = "finished"
                   /\ exit' = "listing_error"
                   /\ UNCHANGED initial_structure
              [] outcome.kind = "Exception" ->
                   /\ pc' = "finished"
                   /\ exit' = "crash"
                   /\ UNCHANGED initial_structure
    /\ UNCHANGED user_context_input
    /\ UNCHANGED <<configVars, selectVars, loopVars, pathVars>>

(***************************************************************************)
(* Planning and execution loop.                                            *)
(***************************************************************************)
\* lines 336-352, up to the pause: a provider error pauses or leaves the loop
ProviderErrorHandler(msg) ==
    /\ agent_call_failed' = TRUE
    /\ IF IsRateLimit(msg)
       THEN pc' = "cooldown" /\ UNCHANGED exit
       ELSE pc' = "finished" /\ exit' = "provider_error"

\* a broken handler: the plan and the last proposal survive the exception
ExceptionHandler_keeps_plan ==
    /\ agent_call_failed' = TRUE
    /\ pc' = "loop"
    /\ UNCHANGED <<current_plan, last_response, exit>>

\* a broken handler: an unexpected exception ends the session
ExceptionHandler_exit ==
    /\ current_plan' = <<>>
    /\ last_response' = <<>>
    /\ agent_call_failed' = TRUE
    /\ pc' = "finished"
    /\ exit' = "crash"

\* lines 354-361: any other exception clears the plan and the loop goes on
ExceptionHandler ==
    /\ current_plan' = <<>>
    /\ last_response' = <<>>
    /\ agent_call_failed' = TRUE
    /\ pc' = "loop"
    /\ UNCHANGED exit

\* lines 224-228: the top of an iteration
LoopTop ==
    /\ pc = "loop"
    /\ agent_call_failed' = FALSE
    /\ pc' = IF current_plan = <<>> THEN "propose" ELSE "display"
    /\ UNCHANGED <<current_plan, last_response, user_input, execution_prompt>>
    /\ UNCHANGED <<user_context_input, initial_structure, exit, events>>
    /\ UNCHANGED <<configVars, selectVars, pathVars>>

\* lines 228-266: no current plan: ask with the base prompt and extract the plan
ProposePlan ==
    /\ pc = "propose"
    /\ Room
    /\ \E outcome \in CallOutcomes(Replies) :
         /\ Log(CallEvent("base", BasePrompt, outcome))
         /\ CASE outcome.kind = "ok" ->
                   /\ last_response' = outcome.text
                   /\ current_plan' = ExtractPlan(outcome.text)
                   /\ pc' = "display"
                   /\ UNCHANGED <<agent_call_failed, exit>>
              [] outcome.kind = "ModelProviderError" ->
                   /\ ProviderErrorHandler(outcome.text)
                   /\ UNCHANGED <<current_plan, last_response>>
              [] outcome.kind = "Exception" -> ExceptionHandler
    /\ UNCHANGED <<user_input, execution_prompt>>
    /\ UNCHANGED <<user_context_input, initial_structure>>
    /\ UNCHANGED <<configVars, selectVars, pathVars>>

\* lines 268-284: the review display, grouped by kind of action
DisplayEvent ==
    IF current_plan # <<>>
    THEN [type |-> "display", shown |-> "plan", plan |-> current_plan,
          creates |-> creates(current_plan), moves |-> moves(current_plan),
          others |-> others(current_plan)]
    ELSE [type |-> "display",
          shown |-> IF last_response # <<>> THEN "no_actionable" ELSE "nothing",
          plan |-> <<>>, creates |-> <<>>, moves |-> <<>>, others |-> <<>>]

DisplayPlan ==
    /\ pc = "display"
    /\ Room
    /\ Log(DisplayEvent)
    /\ pc' = "review"
    /\ UNCHANGED <<user_context_input, initial_structure, exit>>
    /\ UNCHANGED <<configVars, selectVars, loopVars, pathVars>>

\* a broken normalisation: the input is lower-cased but not trimmed
NormalizeInput_no_strip(raw) == LowerText(raw)

\* a broken normalisation: the input is trimmed but not lower-cased
NormalizeInput_no_lower(raw) == Strip(raw)

\* input(...).lower().strip()
NormalizeInput(raw) == Strip(LowerText(raw))

\* a broken classification: approval is not refused when the plan is empty
AfterInput_no_plan_check(typed, plan) ==
    IF typed = yes THEN "execute"
    ELSE IF typed = no THEN "finished"
    ELSE "revise"

\* lines 293-316: where the loop goes after an input: 'yes' executes a
\* non-empty plan and continues the loop on an empty one, 'no' ends the
\* loop, anything else asks for a revision
AfterInput(typed, plan) ==
    IF typed = yes THEN (IF plan = <<>> THEN "loop" ELSE "execute")
    ELSE IF typed = no THEN "finished"
    ELSE "revise"

\* lines 286-296, 313-316: one line of operator input and its classification
ReviewInput ==
    /\ pc = "review"
    /\ Room
    /\ \/ \E raw \in RawInputs :
            LET typed == NormalizeInput(raw)
            IN  /\ user_input' = typed
                /\ Log([type |-> "input", outcome |-> "ok", raw |-> raw])
                /\ pc' = AfterInput(typed, current_plan)
                /\ exit' = IF pc' = "finished" THEN "rejected" ELSE exit
                /\ UNCHANGED <<current_plan, last_response, agent_call_failed>>
       \/ /\ Log([type |-> "input", outcome |-> "Exception", raw |-> <<>>])
          /\ ExceptionHandler
          /\ UNCHANGED user_input
    /\ UNCHANGED execution_prompt
    /\ UNCHANGED <<user_context_input, initial_structure>>
    /\ UNCHANGED <<configVars, selectVars, pathVars>>

\* a broken ending: the loop goes on after the execution has returned
ExecutionReturned_no_break ==
    /\ pc' = "loop"
    /\ UNCHANGED <<exit, current_plan, last_response, agent_call_failed>>

\* lines 305-311: the result is printed and the loop is left
ExecutionReturned ==
    /\ pc' = "finished"
    /\ exit' = "executed"
    /\ UNCHANGED <<current_plan, last_response, agent_call_failed>>

\* lines 298-311: the approved plan is sent for execution; the loop ends when the call returns
ExecutePlan ==
    /\ pc = "execute"
    /\ Room
    /\ execution_prompt' = ExecutionPrompt(current_plan)
    /\ \E outcome \in CallOutcomes(ExecutionResults) :
         /\ Log(CallEvent("exec", execution_prompt', outcome))
         /\ CASE outcome.kind = "ok" -> ExecutionReturned
              [] outcome.kind = "ModelProviderError" ->
                   /\ ProviderErrorHandler(outcome.text)
                   /\ UNCHANGED <<current_plan, last_response>>
              [] outcome.kind = "Exception" -> ExceptionHandler
    /\ UNCHANGED user_input
    /\ UNCHANGED <<user_context_input, initial_structure>>
    /\ UNCHANGED <<configVars, selectVars, pathVars>>

\* lines 316-333: feedback: ask for a revision, keep the reply, clear the plan
RevisePlan ==
    /\ pc = "revise"
    /\ Room
    /\ \E outcome \in CallOutcomes(Replies) :
         /\ Log(CallEvent("revise", RevisionPrompt(user_input), outcome))
         /\ CASE outcome.kind = "ok" ->
                   /\ last_response' = outcome.text
                   /\ current_plan' = <<>>
                   /\ pc' = "loop"
                   /\ UNCHANGED <<agent_call_failed, exit>>
              [] outcome.kind = "ModelProviderError" ->
                   /\ ProviderErrorHandler(outcome.text)
                   /\ UNCHANGED <<current_plan, last_response>>
              [] outcome.kind = "Exception" -> ExceptionHandler
    /\ UNCHANGED <<user_input, execution_prompt>>
    /\ UNCHANGED <<user_context_input, initial_structure>>
    /\ UNCHANGED <<configVars, selectVars, pathVars>>

\* lines 339-348: the pause after a rate limit, then the reset of the plan
\* unless the execution prompt holds the words "Executing the plan"
Cooldown ==
    /\ pc = "cooldown"
    /\ Room
    /\ Log([type |-> "sleep", seconds |-> wait_time])
    /\ IF ~Contains(execution_prompt, "Executing the plan")
       THEN current_plan' = <<>> /\ last_response' = <<>>
       ELSE UNCHANGED <<current_plan, last_response>>
    /\ pc' = "loop"
    /\ UNCHANGED <<user_input, execution_prompt, agent_call_failed>>
    /\ UNCHANGED <<user_context_input, initial_structure, exit>>
    /\ UNCHANGED <<configVars, selectVars, pathVars>>

Next ==
    \/ DetermineTarget
    \/ PromptDirectory
    \/ ReadContext
    \/ Setup
    \/ InitialListing
    \/ LoopTop
    \/ ProposePlan
    \/ DisplayPlan
    \/ ReviewInput
    \/ ExecutePlan
    \/ RevisePlan
    \/ Cooldown

Spec == Init /\ [][Next]_vars

(***************************************************************************)
(* The boundary check on its own: any candidate against any boundary.      *)
(***************************************************************************)
InitPath ==
    /\ pc = "check"
    /\ top_level_path_config = Rel(<<"~">>)
    /\ default_target_dir_config = EmptyPath
    /\ resolved_top_level = EmptyPath
    /\ resolved_user_path = EmptyPath
    /\ target_determined = FALSE
    /\ ALLOWED_BASE_PATH_STR = EmptyPath
    /\ user_context_input = <<>>
    /\ initial_structure = <<>>
    /\ current_plan = <<>>
    /\ last_response = <<>>
    /\ user_input = <<>>
    /\ execution_prompt = <<>>
    /\ agent_call_failed = FALSE
    /\ exit = "running"
    /\ events = <<>>
    /\ path_to_check \in RawPaths(MaxPathLen)
    /\ boundary_path \in RawPaths(MaxBoundaryLen)
    /\ within = "unchecked"

CheckBoundary ==
    /\ pc = "check"
    /\ within' = IF is_path_within_boundary(path_to_check, boundary_path)
                 THEN "inside" ELSE "outside"
    /\ pc' = "checked"
    /\ UNCHANGED <<path_to_check, boundary_path>>
    /\ UNCHANGED <<user_context_input, initial_structure, exit, events>>
    /\ UNCHANGED <<configVars, selectVars, loopVars>>

NextPath == CheckBoundary

SpecPath == InitPath /\ [][NextPath]_vars

(***************************************************************************)
(* What "inside" means, stated without the library calls: the location a   *)
(* path names, and one location lying at or below another.                 *)
(***************************************************************************)
RECURSIVE Location(_)
Location(comps) ==
    IF comps = <<>> THEN <<>>
    ELSE LET parent == Location(SubSeq(comps, 1, Len(comps) - 1))
             last == comps[Len(comps)]
         IN  IF last = "." THEN parent
             ELSE IF last = ".."
             THEN (IF parent = <<>> THEN <<>> ELSE SubSeq(parent, 1, Len(parent) - 1))
             ELSE Append(parent, last)

LocationOf(p) == Location(IF p.abs THEN p.comps ELSE Cwd \o p.comps)

AtOrBelow(c, b) == Len(b) <= Len(c) /\ \A i \in 1..Len(b) : c[i] = b[i]

\* C8: the boundary check answers "inside" exactly when the location of the
\* candidate is the boundary's location or a descendant of it, and "outside"
\* for every other pair (siblings, names sharing a string prefix, ancestors);
\* it always answers.
C8_BoundaryContainment ==
    within # "unchecked" =>
        /\ within \in {"inside", "outside"}
        /\ within = "inside" <=>
               AtOrBelow(LocationOf(path_to_check), LocationOf(boundary_path))

\* a sibling whose name starts with the boundary's name, reached through "..", is outside
C8_Witness ==
    /\ within = "outside"
    /\ Contains(path_to_check.comps, "..")
    /\ LocationOf(boundary_path) = <<"a">>
    /\ LocationOf(path_to_check) = <<"ab">>

(***************************************************************************)
(* Reading the record of a session.                                        *)
(***************************************************************************)
Indices == 1..Len(events)

IsCall(i) == events[i].type = "call"
IsExecution(i) == IsCall(i) /\ events[i].kind = "exec"
IsProposal(i) == IsCall(i) /\ events[i].kind \in {"base", "revise"}
IsDisplay(i) == events[i].type = "display"
IsInput(i) == events[i].type = "input" /\ events[i].outcome = "ok"
IsSleep(i) == events[i].type = "sleep"

\* the plan text an execution request carries: what follows the header
SentPlan(i) ==
    SubSeq(events[i].prompt, Len(ExecutionHeader) + 1, Len(events[i].prompt))

\* raw is tok in any mix of cases, with any white space around it
IsToken(raw, tok) ==
    \E lead \in 0..Len(raw) :
        /\ lead + Len(tok) <= Len(raw)
        /\ \A k \in 1..Len(raw) :
              IF k <= lead \/ k > lead + Len(tok)
              THEN raw[k] = " "
              ELSE Lower(raw[k]) = tok[k - lead]

IsApproval(i) == IsInput(i) /\ IsToken(events[i].raw, yes)
IsRejection(i) == IsInput(i) /\ IsToken(events[i].raw, no)
IsFeedback(i) == IsInput(i) /\ ~IsToken(events[i].raw, yes) /\ ~IsToken(events[i].raw, no)

\* C1: an execution request comes right after an approval that comes right
\* after the display of a non-empty plan, and carries exactly that plan; so
\* no proposal call lies between the display and the request.
C1_ExecuteOnlyApprovedPlan ==
    \A i \in Indices :
        IsExecution(i) =>
            /\ i >= 3
            /\ IsApproval(i - 1)
            /\ IsDisplay(i - 2)
            /\ events[i - 2].shown = "plan"
            /\ events[i - 2].plan # <<>>
            /\ SentPlan(i) = events[i - 2].plan

\* an execution request after the operator typed " YES "
C1_Witness ==
    \E i \in Indices :
        /\ IsExecution(i)
        /\ i >= 3
        /\ events[i - 1].type = "input"
        /\ events[i - 1].raw = <<" ", "Y", "E", "S", " ">>

\* the next display after position i, if the record holds one
NextDisplay(i, j) ==
    /\ j > i
    /\ IsDisplay(j)
    /\ \A k \in (i + 1)..(j - 1) : ~IsDisplay(k)

\* C2: after feedback whose revision request is answered, the next review
\* display shows the plan extracted from that answer, the request carries
\* the feedback, and no other proposal call comes before the display.
C2_FeedbackPlanIsShown ==
    \A i \in Indices : \A j \in Indices :
        (/\ IsFeedback(i)
         /\ i < Len(events)
         /\ IsCall(i + 1)
         /\ events[i + 1].outcome = "ok"
         /\ NextDisplay(i + 1, j))
        => /\ events[i + 1].kind = "revise"
           /\ events[i + 1].prompt = RevisionPrompt(NormalizeInput(events[i].raw))
           /\ events[j].plan = ExtractPlan(events[i + 1].reply)
           /\ \A k \in (i + 2)..(j - 1) : ~IsProposal(k)

\* C3: after a cooldown no proposal call is issued before the operator has
\* given a new input.
C3_CooldownReturnsToOperator ==
    \A i \in Indices : \A j \in Indices :
        (IsSleep(i) /\ j > i /\ IsProposal(j))
        => \E k \in (i + 1)..(j - 1) : IsInput(k)

\* C4: an approval given while the displayed plan is empty is followed by
\* another review display, not by an agent call of any kind.
C4_ApproveEmptyPlanPromptsAgain ==
    \A i \in Indices :
        (/\ i >= 2
         /\ i < Len(events)
         /\ IsApproval(i)
         /\ IsDisplay(i - 1)
         /\ events[i - 1].plan = <<>>)
        => ~IsCall(i + 1)

\* C5: in the plan sent for execution every create-directory line comes
\* before any move line, and each group keeps the order the plan had.
C5_CreatesBeforeMovesSent ==
    \A i \in Indices :
        IsExecution(i) =>
            LET sent == Split(SentPlan(i))
            IN  /\ \A a \in 1..Len(sent) : \A b \in 1..Len(sent) :
                      (IsMove(sent[a]) /\ IsCreate(sent[b])) => b < a
                /\ i >= 3 /\ IsDisplay(i - 2)
                /\ SelectSeq(sent, IsCreate) = events[i - 2].creates
                /\ SelectSeq(sent, IsMove) = events[i - 2].moves

PathArgs == {"a.jpg", "b.txt", "../x", "/etc"}
ArgPath(tok) ==
    CASE tok = "a.jpg" -> Rel(<<"a.jpg">>)
      [] tok = "b.txt" -> Rel(<<"b.txt">>)
      [] tok = "../x" -> Rel(<<"..", "x">>)
      [] tok = "/etc" -> Abs(<<"etc">>)

\* a relative argument is resolved against the session's base directory
ResolvedArg(tok) ==
    IF ArgPath(tok).abs THEN ArgPath(tok)
    ELSE Abs(ALLOWED_BASE_PATH_STR.comps \o ArgPath(tok).comps)

\* C7: no plan sent for execution holds a path argument that the boundary
\* check places outside the session's base directory.
C7_SentPathsInsideBoundary ==
    \A i \in Indices :
        IsExecution(i) =>
            \A k \in 1..Len(SentPlan(i)) :
                SentPlan(i)[k] \in PathArgs =>
                    is_path_within_boundary(ResolvedArg(SentPlan(i)[k]),
                                            ALLOWED_BASE_PATH_STR)

\* a resolved path that names an existing directory at or below the
\* location of the configured top-level root
TopLocation == LocationOf(expanduser(top_level_path_config))
ValidTarget(p) ==
    /\ p.abs
    /\ Location(p.comps) = p.comps
    /\ p.comps \in Dirs
    /\ AtOrBelow(p.comps, TopLocation)

C9_BaseIsValid ==
    /\ ALLOWED_BASE_PATH_STR # EmptyPath => ValidTarget(ALLOWED_BASE_PATH_STR)
    /\ events # <<>> => ALLOWED_BASE_PATH_STR # EmptyPath
    /\ pc \in {"start", "prompt_dir"} => ALLOWED_BASE_PATH_STR = EmptyPath

C9_SelectionStep ==
    /\ pc = "start" =>
          LET default == abspath(expanduser(default_target_dir_config))
          IN  IF default_target_dir_config # EmptyPath /\ ValidTarget(default)
              THEN pc' = "context" /\ ALLOWED_BASE_PATH_STR' = default
              ELSE pc' = "prompt_dir" /\ ALLOWED_BASE_PATH_STR' = EmptyPath
    /\ pc = "prompt_dir" =>
          IF ValidTarget(resolved_user_path')
          THEN pc' = "context" /\ ALLOWED_BASE_PATH_STR' = resolved_user_path'
          ELSE pc' = "prompt_dir" /\ ALLOWED_BASE_PATH_STR' = EmptyPath
    /\ ALLOWED_BASE_PATH_STR # EmptyPath => ALLOWED_BASE_PATH_STR' = ALLOWED_BASE_PATH_STR

\* C9: the base directory is only ever set to an existing directory at or
\* below the top-level root, and is set once; a configured default that is
\* no such directory leads to the prompt; the prompt repeats after every
\* input that is no such directory; no agent call is made while the base
\* directory is unset.
C9_TargetSelection == [](C9_BaseIsValid) /\ [][C9_SelectionStep]_vars

\* the configured default was refused, the prompt accepted /a/ab, and the
\* agent has been called
C9_Witness ==
    /\ default_target_dir_config = Rel(<<".">>)
    /\ resolved_top_level = Abs(<<"a">>)
    /\ ALLOWED_BASE_PATH_STR = Abs(<<"a", "ab">>)
    /\ resolved_user_path = ALLOWED_BASE_PATH_STR
    /\ events # <<>>

\* C10: a rejection at the review prompt is the last thing the session
\* does: nothing follows it in the record (no proposal call, no execution
\* request), and the loop has ended as rejected.
C10_RejectIsTerminal ==
    \A i \in Indices :
        IsRejection(i) =>
            /\ i = Len(events)
            /\ pc = "finished"
            /\ exit = "rejected"

\* "No " typed at the display of a non-empty plan
C10_Witness ==
    /\ exit = "rejected"
    /\ Len(events) >= 2
    /\ events[Len(events)].raw = <<"N", "o", " ">>
    /\ events[Len(events) - 1].shown = "plan"

\* C11: an execution request that returns, with whatever report, is the
\* last thing the session does: no review display, input, proposal call or
\* second execution request follows, and the loop has ended as executed.
C11_ExecutionEndsLoop ==
    \A i \in Indices :
        (IsExecution(i) /\ events[i].outcome = "ok") =>
            /\ i = Len(events)
            /\ pc = "finished"
            /\ exit = "executed"

\* the execution returned with a report of a failed step
C11_Witness ==
    /\ exit = "executed"
    /\ events[Len(events)].kind = "exec"
    /\ events[Len(events)].reply = <<"error", "stopped">>

\* a provider message that carries no rate-limit signal in any case
NoRateSignal(msg) ==
    \A k \in 1..Len(msg) : Lower(msg[k]) \notin {"429", "resource_exhausted"}

IsLoopCall(i) == IsCall(i) /\ events[i].kind \in {"base", "revise", "exec"}

\* C12: a call of the loop that fails with a provider error carrying no
\* rate-limit signal is the last thing the session does: no cooldown, no
\* proposal call, no review and no execution request follow, and the loop
\* has ended on the provider error.
C12_ProviderErrorEndsLoop ==
    \A i \in Indices :
        (/\ IsLoopCall(i)
         /\ events[i].outcome = "ModelProviderError"
         /\ NoRateSignal(events[i].reply))
        => /\ i = Len(events)
           /\ pc = "finished"
           /\ exit = "provider_error"

\* a revision request failed with "Error 500"
C12_Witness ==
    /\ exit = "provider_error"
    /\ events[Len(events)].kind = "revise"
    /\ events[Len(events)].reply = <<"Error", "500">>

(***************************************************************************)
(* The plan extraction on its own: any proposal text of a few lines.       *)
(***************************************************************************)
\* the lines a proposal may be made of: tool calls that are well formed,
\* that have an unparsable payload, that name another tool, that are
\* written in upper case with white space around; prose; the marker alone
\* and inside a line; a tool call inside a line; a blank line
ProposalLines ==
    {<<"call tool", "create_directory", "{path}">>,
     <<"call tool", "move_file", "{bad">>,
     <<" ", "Call Tool", "move_file", "{args}", " ">>,
     <<"call tool", "delete_file", "{path}">>,
     <<"note">>,
     <<"PLAN:">>,
     <<"note", "PLAN:", " ", "call tool", "create_directory", "{path}">>,
     <<"note", "call tool", "move_file", "{args}">>,
     <<" ">>}

ProposalTexts == {Join(lines) : lines \in SeqsUpTo(ProposalLines, MaxLines)}

InitExtract ==
    /\ pc = "extract"
    /\ top_level_path_config = Rel(<<"~">>)
    /\ default_target_dir_config = EmptyPath
    /\ resolved_top_level = EmptyPath
    /\ resolved_user_path = EmptyPath
    /\ target_determined = FALSE
    /\ ALLOWED_BASE_PATH_STR = EmptyPath
    /\ user_context_input = <<>>
    /\ initial_structure = <<>>
    /\ current_plan = <<>>
    /\ last_response \in ProposalTexts
    /\ user_input = <<>>
    /\ execution_prompt = <<>>
    /\ agent_call_failed = FALSE
    /\ exit = "running"
    /\ events = <<>>
    /\ path_to_check = EmptyPath
    /\ boundary_path = EmptyPath
    /\ within = "unchecked"

\* lines 253-266 applied to last_response
ExtractProposal ==
    /\ pc = "extract"
    /\ current_plan' = ExtractPlan(last_response)
    /\ pc' = "extracted"
    /\ UNCHANGED <<last_response, user_input, execution_prompt, agent_call_failed>>
    /\ UNCHANGED <<user_context_input, initial_structure, exit, events>>
    /\ UNCHANGED <<configVars, selectVars, pathVars>>

NextExtract == ExtractProposal

SpecExtract == InitExtract /\ [][NextExtract]_vars

(***************************************************************************)
(* What the extraction should keep, stated on the positions of the text.   *)
(***************************************************************************)
HasMarker(text) == \E k \in 1..Len(text) : text[k] = plan_marker

\* the text that is scanned: after the first marker, or all of it
Scanned(text) ==
    IF HasMarker(text)
    THEN LET first == CHOOSE k \in 1..Len(text) :
                          /\ text[k] = plan_marker
                          /\ \A j \in 1..(k - 1) : text[j] # plan_marker
         IN  SubSeq(text, first + 1, Len(text))
    ELSE text

\* the positions at which a line of t starts, and the line that starts there
LineStarts(t) == {k \in 1..(Len(t) + 1) : k = 1 \/ t[k - 1] = NL}
LineStop(t, k) ==
    CHOOSE j \in k..(Len(t) + 1) :
        /\ j = Len(t) + 1 \/ t[j] = NL
        /\ \A h \in k..(j - 1) : t[h] # NL
LineAt(t, k) == SubSeq(t, k, LineStop(t, k) - 1)

\* the line without the white space around it
Trimmed(line) ==
    LET inked == {k \in 1..Len(line) : line[k] # " "}
    IN  IF inked = {} THEN <<>>
        ELSE SubSeq(line,
                    CHOOSE a \in inked : \A k \in inked : a <= k,
                    CHOOSE b \in inked : \A k \in inked : k <= b)

\* the line begins with the tool-call prefix, in any case
Invocation(line) ==
    Trimmed(line) # <<>> /\ Lower(Trimmed(line)[1]) = tool_call_prefix

NamesTypedTool(line) ==
    \E k \in 1..Len(line) : line[k] \in {"create_directory", "move_file"}

ParsablePayloads == {"{path}", "{args}"}
WellFormed(line) ==
    /\ Invocation(line)
    /\ Len(Trimmed(line)) = 3
    /\ Trimmed(line)[2] \in {"create_directory", "move_file"}
    /\ Trimmed(line)[3] \in ParsablePayloads

InvocationStarts(t) == {k \in LineStarts(t) : Invocation(LineAt(t, k))}

TypedCount(plan) == Len(creates(plan)) + Len(moves(plan))
OtherCount(plan) == IF plan = <<>> THEN 0 ELSE Len(others(plan))

Nth(S, n) == CHOOSE k \in S : Cardinality({j \in S : j < k}) = n - 1

\* the tool-call lines of the scanned text, trimmed, in the order of the text
ExpectedLines(text) ==
    LET t == Scanned(text)
        kept == InvocationStarts(t)
    IN  [n \in 1..Cardinality(kept) |-> Trimmed(LineAt(t, Nth(kept, n)))]

\* C15: the extracted plan is made of exactly the lines that begin with the
\* tool-call prefix, in the order of the text, taken from what follows the
\* first plan marker when there is a marker and from the whole text when
\* there is none; tool-call lines before the first marker are not in it.
C15_PlanIsToolCallLines ==
    pc = "extracted" =>
        IF ExpectedLines(last_response) = <<>>
        THEN current_plan = <<>>
        ELSE Split(current_plan) = ExpectedLines(last_response)

\* a tool call before the marker is dropped, the one after it is kept,
\* and a second marker changes nothing
C15_Witness ==
    /\ pc = "extracted"
    /\ last_response = Join(<<<<"call tool", "delete_file", "{path}">>,
                              <<"note", "PLAN:", " ", "call tool", "create_directory", "{path}">>,
                              <<"PLAN:">>>>)
    /\ current_plan = <<"call tool", "create_directory", "{path}">>

\* C16 as claimed: a proposal that is empty or has no plan marker gives the
\* empty plan.
C16_NoMarkerNoPlan ==
    pc = "extracted" =>
        ((last_response = <<>> \/ ~HasMarker(last_response)) => current_plan = <<>>)

\* C16 as the program has it: the extraction always ends with a plan; the
\* empty proposal gives the empty plan, and a proposal without a plan
\* marker gives the empty plan exactly when none of its lines begins with
\* the tool-call prefix: its tool-call lines are extracted all the same.
C16_NoToolCallNoPlan ==
    pc = "extracted" =>
        /\ last_response = <<>> => current_plan = <<>>
        /\ ~HasMarker(last_response) =>
              (current_plan = <<>> <=> InvocationStarts(last_response) = {})

\* a proposal without marker whose tool call is extracted
C16_Witness ==
    /\ pc = "extracted"
    /\ last_response = Join(<<<<"note">>, <<"call tool", "create_directory", "{path}">>>>)
    /\ current_plan = <<"call tool", "create_directory", "{path}">>

\* C17: a proposal call that is answered is followed by the review display
\* and the session goes on; when nothing can be extracted from the answer
\* the operator is told so (by the warning of the extraction or by the
\* "no actionable plan" notice of the display) before the next input.
C17_ReplyReachesReview ==
    \A i \in Indices :
        (IsProposal(i) /\ events[i].outcome = "ok") =>
            /\ pc # "finished" \/ i < Len(events)
            /\ i < Len(events) =>
                  /\ IsDisplay(i + 1)
                  /\ ExtractPlan(events[i].reply) = <<>> =>
                        (events[i].warned \/ events[i + 1].shown = "no_actionable")

\* the review loop was entered: the initial listing was answered with a
\* listing that is not blank
LoopEntered ==
    /\ events # <<>>
    /\ events[1].outcome = "ok"
    /\ \E k \in 1..Len(events[1].reply) : events[1].reply[k] \notin {" ", NL}

\* C18: the loop begins with a proposal request; it is left only when an
\* execution request that followed an approval has returned, when the
\* operator has rejected, or on a provider error without rate-limit signal;
\* in every other state the loop has a next step.
C18_ThreeExits ==
    LoopEntered =>
        LET last == Len(events)
        IN  /\ last >= 2 => (IsCall(2) /\ events[2].kind = "base")
            /\ pc = "finished" =>
                  \/ /\ exit = "executed"
                     /\ IsExecution(last) /\ events[last].outcome = "ok"
                     /\ IsApproval(last - 1)
                  \/ /\ exit = "rejected"
                     /\ IsRejection(last)
                  \/ /\ exit = "provider_error"
                     /\ IsLoopCall(last)
                     /\ events[last].outcome = "ModelProviderError"
                     /\ NoRateSignal(events[last].reply)
            /\ (pc # "finished" /\ Room) => ENABLED Next

\* the loop went on after an exception of a proposal call and after a cooldown
C18_Witness ==
    /\ LoopEntered
    /\ pc = "propose"
    /\ \E i \in Indices : IsProposal(i) /\ events[i].outcome = "Exception"
    /\ IsSleep(Len(events))

\* C19: an input is an approval, a rejection or feedback and never two of
\* them; an approval is followed by the execution request, or by a new
\* iteration when there is no plan; a rejection ends the loop; any other
\* input, the empty line included, is followed by the revision request
\* that carries it.
C19_InputClassification ==
    \A i \in Indices :
        IsInput(i) =>
            LET raw == events[i].raw
                atEnd == i = Len(events)
            IN  /\ IsToken(raw, yes) =>
                      /\ atEnd => pc \in {"execute", "loop", "propose"}
                      /\ ~atEnd => (IsCall(i + 1) /\ events[i + 1].kind \in {"exec", "base"})
                      /\ (~atEnd /\ events[i - 1].plan # <<>>) => IsExecution(i + 1)
                /\ IsToken(raw, no) => (atEnd /\ pc = "finished" /\ exit = "rejected")
                /\ (~IsToken(raw, yes) /\ ~IsToken(raw, no)) =>
                      /\ atEnd => pc = "revise"
                      /\ ~atEnd =>
                            /\ IsCall(i + 1)
                            /\ events[i + 1].kind = "revise"
                            /\ \E k \in 1..Len(events[i + 1].prompt) :
                                  SubSeq(events[i + 1].prompt, k + 1, k + Len(Trimmed(raw)))
                                      = [j \in 1..Len(Trimmed(raw)) |-> Lower(Trimmed(raw)[j])]

\* the empty line was taken as feedback and a revision was requested
C19_Witness ==
    \E i \in Indices :
        /\ IsInput(i)
        /\ events[i].raw = <<>>
        /\ i < Len(events)
        /\ events[i + 1].kind = "revise"

\* C20: after a rate limit raised by the execution request the plan is
\* kept through the cooldown, and the next thing the operator sees is the
\* review display of that same plan.
C20_PlanKeptAfterExecutionRateLimit ==
    \A i \in Indices :
        (/\ IsExecution(i)
         /\ events[i].outcome = "ModelProviderError"
         /\ ~NoRateSignal(events[i].reply)
         /\ i < Len(events))
        => /\ IsSleep(i + 1)
           /\ i + 1 = Len(events) => current_plan = SentPlan(i)
           /\ i + 1 < Len(events) =>
                 (IsDisplay(i + 2) /\ events[i + 2].plan = SentPlan(i))

\* an exception other than a provider error was raised in the loop: by a
\* proposal call or the extraction that follows it, by the execution
\* request, or by the reading of the operator's input
IsUnexpected(i) ==
    /\ events[i].type \in {"call", "input"}
    /\ events[i].type = "call" => events[i].kind # "list"
    /\ events[i].outcome = "Exception"

\* the text of the initial listing, as the first call returned it
ListedStructure == events[1].reply

\* the text ends with the listing and holds nothing the operator typed at a review
IsBaseRequest(i) ==
    LET prompt == events[i].prompt
        n == Len(ListedStructure)
    IN  /\ IsCall(i)
        /\ events[i].kind = "base"
        /\ Len(prompt) > n
        /\ SubSeq(prompt, Len(prompt) - n + 1, Len(prompt)) = ListedStructure
        /\ prompt[Len(prompt) - n] = NL
        /\ prompt[Len(prompt) - n - 1] = "Initial Structure:"

\* C21: an exception other than a provider error raised inside the loop
\* does not end the session: the plan and the last proposal text are
\* cleared and the loop has a next step; the next thing the session does is
\* a proposal call with the base prompt, with no operator input in between,
\* and that call may fail in the same way again.
C21_ExceptionRestartsProposal ==
    \A i \in Indices :
        IsUnexpected(i) =>
            /\ i = Len(events) =>
                  /\ pc \in {"loop", "propose"}
                  /\ exit = "running"
                  /\ current_plan = <<>>
                  /\ last_response = <<>>
                  /\ Room => ENABLED Next
            /\ i < Len(events) => IsBaseRequest(i + 1)

\* the reading of the input failed while a plan was on display, and every
\* step since has been a base-prompt call that failed, up to the end of the
\* recorded history
C21_Witness ==
    /\ Len(events) = MaxEvents
    /\ \E i \in Indices :
          /\ events[i].type = "input"
          /\ events[i].outcome = "Exception"
          /\ events[i - 1].plan # <<>>
          /\ i + 2 <= Len(events)
          /\ \A j \in (i + 1)..Len(events) :
                IsBaseRequest(j) /\ events[j].outcome = "Exception"

\* the first thing a session does with the agent is the listing call
IsListing(i) == IsCall(i) /\ events[i].kind = "list"

\* a text without any visible token
Blank(text) == \A k \in 1..Len(text) : text[k] \in {" ", NL}

\* the listing call failed with a provider error, or returned a blank listing
ListingUnusable ==
    /\ events # <<>>
    /\ IsListing(1)
    /\ \/ events[1].outcome = "ModelProviderError"
       \/ events[1].outcome = "ok" /\ Blank(events[1].reply)

\* C22: when the listing call fails with a provider error, rate limit
\* included, or returns an empty or blank listing, the session has ended
\* and the listing call is all it ever did: no pause, no proposal request,
\* no review display, no input and no execution request.
C22_ListingFailureEndsSession ==
    ListingUnusable =>
        /\ pc = "finished"
        /\ exit = IF events[1].outcome = "ok" THEN "empty_listing" ELSE "listing_error"
        /\ Len(events) = 1
        /\ ~ENABLED Next
        /\ current_plan = <<>> /\ execution_prompt = <<>>

\* the listing call hit the rate limit and the session ended without a pause
C22_Witness ==
    /\ events # <<>>
    /\ IsListing(1)
    /\ events[1].outcome = "ModelProviderError"
    /\ ~NoRateSignal(events[1].reply)
    /\ pc = "finished"
    /\ \A i \in Indices : ~IsSleep(i)

====
